---------------------------- MODULE Spec2Model ----------------------------
(***************************************************************************)
(* Model of process_emails.py (EmailProcessor): the date normalizers, the  *)
(* two CSV dialect parsers, the link and attachment extractors, the Notion *)
(* upsert and the process() run with its exit contract.                    *)
(*                                                                         *)
(* Strings are sequences of one-character strings, so that strip(),        *)
(* isdigit(), replace(), lower() and endswith() are computed as the code   *)
(* computes them.  A date token is the sequence of its lexemes (numerals,  *)
(* separators, month names) and a canonical date 'YYYY-MM-DD' is the       *)
(* triple <<Y, m, d>> that strftime('%Y-%m-%d') prints.                    *)
(***************************************************************************)
EXTENDS Integers, Sequences, FiniteSets, TLC

VARIABLES
    pc,       \* position of the program (or of the function under check)
    today,    \* datetime.now() as <<Y, m, d>>
    env,      \* the configuration read from os.environ
    inp,      \* argument(s) of the function under check
    out,      \* its return value
    run,      \* the locals of process() and what the run has done so far
    store     \* the pages of the database

vars == <<pc, today, env, inp, out, run, store>>

NoValue == [none |-> TRUE]

(***************************************************************************)
(* Strings: sequences of one-character strings                             *)
(***************************************************************************)

Whitespace == {" "}
Digits == {"0", "1", "2", "3", "4", "5", "6", "7", "8", "9"}
DigitSeq == <<"0", "1", "2", "3", "4", "5", "6", "7", "8", "9">>
UpperAlpha ==
    <<"A", "B", "C", "D", "E", "F", "G", "H", "I", "J", "K", "L", "M",
      "N", "O", "P", "Q", "R", "S", "T", "U", "V", "W", "X", "Y", "Z">>
LowerAlpha ==
    <<"a", "b", "c", "d", "e", "f", "g", "h", "i", "j", "k", "l", "m",
      "n", "o", "p", "q", "r", "s", "t", "u", "v", "w", "x", "y", "z">>

IsUpper(c) == \E i \in 1..Len(UpperAlpha) : UpperAlpha[i] = c
Letters == {UpperAlpha[i] : i \in 1..Len(UpperAlpha)}
               \cup {LowerAlpha[i] : i \in 1..Len(LowerAlpha)}
IsAlpha(c) == c \in Letters

DigitVal(c) == (CHOOSE i \in 1..Len(DigitSeq) : DigitSeq[i] = c) - 1

\* str.lower()
LowerChar(c) ==
    IF IsUpper(c)
    THEN LowerAlpha[CHOOSE i \in 1..Len(UpperAlpha) : UpperAlpha[i] = c]
    ELSE c
Lower(s) == [i \in 1..Len(s) |-> LowerChar(s[i])]

\* str.strip()
RECURSIVE LStrip(_)
LStrip(s) ==
    IF s # <<>> /\ Head(s) \in Whitespace THEN LStrip(Tail(s)) ELSE s
RECURSIVE RStrip(_)
RStrip(s) ==
    IF s # <<>> /\ s[Len(s)] \in Whitespace
    THEN RStrip(SubSeq(s, 1, Len(s) - 1)) ELSE s
Strip(s) == RStrip(LStrip(s))

\* str.isdigit()
IsDigit(s) == s # <<>> /\ \A i \in 1..Len(s) : s[i] \in Digits

\* s.replace(c, '', 1): s without its first c.
ReplaceFirst(s, c) ==
    IF \E i \in 1..Len(s) : s[i] = c
    THEN LET i == CHOOSE k \in 1..Len(s) :
                     s[k] = c /\ \A j \in 1..(k - 1) : s[j] # c
         IN  SubSeq(s, 1, i - 1) \o SubSeq(s, i + 1, Len(s))
    ELSE s

\* s.replace(c, ''): s without any c.
ReplaceAll(s, c) == SelectSeq(s, LAMBDA x : x # c)

\* s.endswith(t), t in s
EndsWith(s, t) ==
    Len(s) >= Len(t) /\ SubSeq(s, Len(s) - Len(t) + 1, Len(s)) = t
Contains(s, t) ==
    \E i \in 1..(Len(s) - Len(t) + 1) : SubSeq(s, i, i + Len(t) - 1) = t

\* int(s) of a string of decimal digits.
RECURSIVE IntVal(_)
IntVal(s) ==
    IF s = <<>> THEN 0
    ELSE 10 * IntVal(SubSeq(s, 1, Len(s) - 1)) + DigitVal(s[Len(s)])

\* The longest prefix of s made of characters of the set cs.
Span(s, cs) ==
    LET n == CHOOSE k \in 0..Len(s) :
                 /\ \A i \in 1..k : s[i] \in cs
                 /\ (k = Len(s) \/ s[k + 1] \notin cs)
    IN  SubSeq(s, 1, n)

(***************************************************************************)
(* Dates: datetime.strptime, _parse_date, _parse_date_with_year            *)
(***************************************************************************)

\* A lexeme of a date token: a numeral (value v written with w digits), a
\* separator, a month name, or text no directive accepts.
NumW(n, w) == [k |-> "num", v |-> n, w |-> w]
Num(n)  == NumW(n, IF n < 10 THEN 1 ELSE IF n < 100 THEN 2
                   ELSE IF n < 1000 THEN 3 ELSE 4)
Sep(s)  == [k |-> s,      v |-> 0, w |-> 0]
Abbr(m) == [k |-> "abbr", v |-> m, w |-> 0]   \* "Jan", "Feb", ..., "May", ...
Full(m) == [k |-> "full", v |-> m, w |-> 0]   \* "January", ... ("May" is Abbr(5))
Junk    == [k |-> "junk", v |-> 0, w |-> 0]
NoneTok == <<[k |-> "None", v |-> 0, w |-> 0]>> \* a non-string argument (None)

IsStr(tok) == tok # NoneTok

IsLeap(y) == (y % 4 = 0 /\ y % 100 # 0) \/ y % 400 = 0

DaysIn(y, m) ==
    IF m \in {4, 6, 9, 11} THEN 30
    ELSE IF m = 2 THEN (IF IsLeap(y) THEN 29 ELSE 28)
    ELSE 31

\* datetime accepts years 1..9999 only.
ValidDate(y, m, d) == y \in 1..9999 /\ m \in 1..12 /\ d \in 1..DaysIn(y, m)

\* The year strptime assumes when the format has no %Y.
DefaultYear == 1900

\* Whether lexeme lx is accepted by directive (or literal) dir.
DirMatches(lx, dir) ==
    CASE dir = "%m" -> lx.k = "num" /\ lx.w \in 1..2 /\ lx.v \in 1..12
      [] dir = "%d" -> lx.k = "num" /\ lx.w \in 1..2 /\ lx.v \in 1..31
      [] dir = "%Y" -> lx.k = "num" /\ lx.w = 4
      [] dir = "%H" -> lx.k = "num" /\ lx.w \in 1..2 /\ lx.v \in 0..23
      [] dir = "%M" -> lx.k = "num" /\ lx.w \in 1..2 /\ lx.v \in 0..59
      [] dir = "%S" -> lx.k = "num" /\ lx.w \in 1..2 /\ lx.v \in 0..61
      [] dir = "%b" -> lx.k = "abbr"
      [] dir = "%B" -> lx.k = "full" \/ (lx.k = "abbr" /\ lx.v = 5)
      [] OTHER      -> lx.k = dir

\* The value the token gives directive dir, or dflt when fmt has no dir.
FieldOf(tok, fmt, dir, dflt) ==
    IF \E i \in 1..Len(fmt) : fmt[i] = dir
    THEN tok[CHOOSE i \in 1..Len(fmt) : fmt[i] = dir].v
    ELSE dflt

\* datetime.strptime(tok, fmt): ok = FALSE stands for ValueError.
Strptime(tok, fmt) ==
    LET shape == Len(tok) = Len(fmt)
                 /\ \A i \in 1..Len(fmt) : DirMatches(tok[i], fmt[i])
        Y == FieldOf(tok, fmt, "%Y", DefaultYear)
        m == IF \E i \in 1..Len(fmt) : fmt[i] \in {"%b", "%B"}
             THEN tok[CHOOSE i \in 1..Len(fmt) : fmt[i] \in {"%b", "%B"}].v
             ELSE FieldOf(tok, fmt, "%m", 1)
        d == FieldOf(tok, fmt, "%d", 1)
    IN  IF shape /\ ValidDate(Y, m, d)
        THEN [ok |-> TRUE,  Y |-> Y, m |-> m, d |-> d]
        ELSE [ok |-> FALSE, Y |-> 0, m |-> 0, d |-> 0]

FullDateFormats ==
    << <<"%Y", "-", "%m", "-", "%d">>,
       <<"%m", "/", "%d", "/", "%Y">>,
       <<"%d", "/", "%m", "/", "%Y">>,
       <<"%Y", "-", "%m", "-", "%d", " ", "%H", ":", "%M", ":", "%S">>,
       <<"%m", "/", "%d", "/", "%Y", " ", "%H", ":", "%M", ":", "%S">>,
       <<"%d", "-", "%m", "-", "%Y">>,
       <<"%Y", "/", "%m", "/", "%d">> >>

\* The formats in the order of _parse_date_with_year, as they should not be.
YearlessFormatsSwapped ==
    << <<"%d", "/", "%m">>,
       <<"%m", "/", "%d">>,
       <<"%b", " ", "%d">>,
       <<"%B", " ", "%d">> >>

YearlessFormats ==
    << <<"%m", "/", "%d">>,
       <<"%d", "/", "%m">>,
       <<"%b", " ", "%d">>,
       <<"%B", " ", "%d">> >>

\* Index of the first format of fmts that parses tok, 0 if none does.
FirstParsing(tok, fmts) ==
    IF \E i \in 1..Len(fmts) : Strptime(tok, fmts[i]).ok
    THEN CHOOSE i \in 1..Len(fmts) :
            /\ Strptime(tok, fmts[i]).ok
            /\ \A j \in 1..(i - 1) : ~Strptime(tok, fmts[j]).ok
    ELSE 0

\* _parse_date(date_str): the token is a string here.
ParseDate(tok, now) ==
    IF tok = <<>> THEN now
    ELSE LET i == FirstParsing(tok, FullDateFormats)
         IN  IF i = 0 THEN now
             ELSE LET r == Strptime(tok, FullDateFormats[i])
                  IN  <<r.Y, r.m, r.d>>

\* Index of the first year-less format that parses tok and whose date exists
\* in `year` (dt.replace(year=year) raises ValueError otherwise), 0 if none.
FirstYearless(tok, year) ==
    LET good(i) == /\ Strptime(tok, YearlessFormats[i]).ok
                   /\ ValidDate(year, Strptime(tok, YearlessFormats[i]).m,
                                      Strptime(tok, YearlessFormats[i]).d)
    IN  IF \E i \in 1..Len(YearlessFormats) : good(i)
        THEN CHOOSE i \in 1..Len(YearlessFormats) :
                good(i) /\ \A j \in 1..(i - 1) : ~good(j)
        ELSE 0

\* _parse_date_with_year(date_str, year)
ParseDateWithYear(tok, year, now) ==
    IF ~IsStr(tok) THEN <<year, 1, 1>>       \* TypeError: the outer except
    ELSE LET i == FirstYearless(tok, year)
         IN  IF i = 0 THEN ParseDate(tok, now)
             ELSE LET r == Strptime(tok, YearlessFormats[i])
                  IN  <<year, r.m, r.d>>

MonthAbbrs ==
    << <<"j", "a", "n">>, <<"f", "e", "b">>, <<"m", "a", "r">>,
       <<"a", "p", "r">>, <<"m", "a", "y">>, <<"j", "u", "n">>,
       <<"j", "u", "l">>, <<"a", "u", "g">>, <<"s", "e", "p">>,
       <<"o", "c", "t">>, <<"n", "o", "v">>, <<"d", "e", "c">> >>
MonthNames ==
    << <<"j", "a", "n", "u", "a", "r", "y">>,
       <<"f", "e", "b", "r", "u", "a", "r", "y">>,
       <<"m", "a", "r", "c", "h">>,
       <<"a", "p", "r", "i", "l">>,
       <<"m", "a", "y">>,
       <<"j", "u", "n", "e">>,
       <<"j", "u", "l", "y">>,
       <<"a", "u", "g", "u", "s", "t">>,
       <<"s", "e", "p", "t", "e", "m", "b", "e", "r">>,
       <<"o", "c", "t", "o", "b", "e", "r">>,
       <<"n", "o", "v", "e", "m", "b", "e", "r">>,
       <<"d", "e", "c", "e", "m", "b", "e", "r">> >>

\* The lexeme of a word: strptime matches month names case-insensitively.
WordLexeme(w) ==
    IF \E m \in 1..12 : MonthAbbrs[m] = Lower(w)
    THEN Abbr(CHOOSE m \in 1..12 : MonthAbbrs[m] = Lower(w))
    ELSE IF \E m \in 1..12 : MonthNames[m] = Lower(w)
    THEN Full(CHOOSE m \in 1..12 : MonthNames[m] = Lower(w))
    ELSE Junk

\* The lexemes of a date string, as strptime's directives read it.
RECURSIVE Lex(_)
Lex(s) ==
    IF s = <<>> THEN <<>>
    ELSE LET c == Head(s)
             digs == Span(s, Digits)
             word == Span(s, Letters)
             blank == Span(s, Whitespace)
         IN  IF c \in Digits
             THEN <<NumW(IntVal(digs), Len(digs))>>
                      \o Lex(SubSeq(s, Len(digs) + 1, Len(s)))
             ELSE IF IsAlpha(c)
             THEN <<WordLexeme(word)>> \o Lex(SubSeq(s, Len(word) + 1, Len(s)))
             ELSE IF c \in Whitespace
             THEN <<Sep(" ")>> \o Lex(SubSeq(s, Len(blank) + 1, Len(s)))
             ELSE IF c \in {"/", "-", ":"}
             THEN <<Sep(c)>> \o Lex(Tail(s))
             ELSE <<Junk>> \o Lex(Tail(s))

(***************************************************************************)
(* CSV dialect parsers: parse_csv_source1, parse_csv_source2               *)
(*                                                                         *)
(* A CSV text is the sequence of its lines and a line the sequence of its  *)
(* cells, as csv.reader splits it; an empty line has no cell.              *)
(***************************************************************************)

\* os.environ.get(name) of a variable that is not set.
PyNone == <<"<None>">>

\* A value of the dict csv.DictReader yields for a row.
StrVal(s) == [t |-> "str", s |-> s]
NoneVal   == [t |-> "none", s |-> <<>>]   \* restval of a short row
ListVal   == [t |-> "list", s |-> <<>>]   \* the list under restkey (None)
IntZero   == [t |-> "int", s |-> <<>>]    \* the default 0 of row.get(f, 0)

\* csv.DictReader(lines): the first line gives the field names, lines without
\* a cell are not returned.
DictReader(lines) ==
    [fieldnames |-> IF lines = <<>> THEN <<>> ELSE lines[1],
     rows |-> IF lines = <<>> THEN <<>>
              ELSE SelectSeq(Tail(lines), LAMBDA r : r # <<>>)]

\* row.get(key, dflt) on dict(zip(fieldnames, row)) completed with restval and
\* restkey: a repeated field name keeps the value of its last column.
RowGet(fieldnames, row, key, dflt) ==
    IF \E i \in 1..Len(fieldnames) : fieldnames[i] = key
    THEN LET i == CHOOSE k \in 1..Len(fieldnames) :
                     /\ fieldnames[k] = key
                     /\ \A j \in (k + 1)..Len(fieldnames) : fieldnames[j] # key
         IN  IF i <= Len(row) THEN StrVal(row[i]) ELSE NoneVal
    ELSE IF key = PyNone /\ Len(row) > Len(fieldnames) THEN ListVal
    ELSE dflt

\* list(row.values())[0]
FirstValue(fieldnames, row) ==
    IF fieldnames = <<>> THEN ListVal
    ELSE RowGet(fieldnames, row, fieldnames[1], NoneVal)

\* order_id.replace('.', '').isdigit(): every dot removed.
IsNumericIdAllDots(order_id) == IsDigit(ReplaceAll(order_id, "."))

\* order_id.replace('.', '', 1).isdigit()
IsNumericId(order_id) == IsDigit(ReplaceFirst(order_id, "."))

\* float(v): the decimal forms [sign] digits [. digits]; ok = FALSE stands for
\* ValueError or TypeError.  The value is kept exactly: integer part and
\* fraction digits without trailing zeros.
ToFloat(v) ==
    LET bad == [ok |-> FALSE, neg |-> FALSE, int |-> 0, frac |-> <<>>]
        t == Strip(v.s)
        signed == t # <<>> /\ t[1] \in {"+", "-"}
        b == IF signed THEN Tail(t) ELSE t
        wellformed ==
            /\ \A i \in 1..Len(b) : b[i] \in Digits \cup {"."}
            /\ Cardinality({i \in 1..Len(b) : b[i] = "."}) <= 1
            /\ \E i \in 1..Len(b) : b[i] \in Digits
        ip == Span(b, Digits)
        fp == SubSeq(b, Len(ip) + 2, Len(b))
        keep == IF \E i \in 1..Len(fp) : fp[i] # "0"
                THEN CHOOSE k \in 1..Len(fp) :
                        fp[k] # "0" /\ \A j \in (k + 1)..Len(fp) : fp[j] = "0"
                ELSE 0
    IN  IF v.t = "int"
        THEN [ok |-> TRUE, neg |-> FALSE, int |-> 0, frac |-> <<>>]
        ELSE IF v.t # "str" \/ ~wellformed THEN bad
        ELSE [ok |-> TRUE,
              neg |-> signed /\ t[1] = "-" /\ (IntVal(ip) # 0 \/ keep # 0),
              int |-> IntVal(ip),
              frac |-> SubSeq(fp, 1, keep)]

ExcludedLabels ==
    { <<"t", "o", "t", "a", "l">>,
      <<"s", "u", "m", "m", "a", "r", "y">>,
      <<"s", "u", "b", "t", "o", "t", "a", "l">>,
      <<"g", "r", "a", "n", "d", " ", "t", "o", "t", "a", "l">> }

RECURSIVE Flatten(_)
Flatten(ss) == IF ss = <<>> THEN <<>> ELSE Head(ss) \o Flatten(Tail(ss))

\* The body of the loop of parse_csv_source1 for the i-th row of the reader:
\* the entry appended, if any.  `line` records the row an entry was built
\* from; it is not a key of the entry.
Source1Row(cfg, fieldnames, row, i, now) ==
    LET idv == RowGet(fieldnames, row, cfg.id_field, StrVal(<<>>))
        dv  == RowGet(fieldnames, row, cfg.date_field, StrVal(<<>>))
        amt == ToFloat(RowGet(fieldnames, row, cfg.amount_field, IntZero))
    IN  IF idv.t # "str" \/ dv.t # "str" THEN <<>>
        ELSE IF Strip(idv.s) = <<>> \/ Strip(dv.s) = <<>> THEN <<>>
        ELSE IF ~IsNumericId(Strip(idv.s)) THEN <<>>
        ELSE IF ~amt.ok THEN <<>>
        ELSE << [source |-> cfg.source_name,
                 order_amount |-> [neg |-> amt.neg, int |-> amt.int,
                                   frac |-> amt.frac],
                 order_id |-> Strip(idv.s),
                 order_date |-> ParseDate(Lex(Strip(dv.s)), now),
                 line |-> i] >>

\* parse_csv_source1(csv_content)
ParseCsvSource1(content, cfg, now) ==
    LET r == DictReader(content)
    IN  Flatten([i \in 1..Len(r.rows) |->
                    Source1Row(cfg, r.fieldnames, r.rows[i], i, now)])

\* The first-column check of parse_csv_source2 without lower().
IsExcludedLabelCaseSensitive(v) == Strip(v.s) \in ExcludedLabels

\* first_col_value in ['total', 'summary', 'subtotal', 'grand total']
IsExcludedLabel(v) == Lower(Strip(v.s)) \in ExcludedLabels

\* The body of the loop of parse_csv_source2 for the i-th row of the reader.
Source2Row(cfg, fieldnames, row, i, now) ==
    LET idv == RowGet(fieldnames, row, cfg.id_field, StrVal(<<>>))
        dv  == RowGet(fieldnames, row, cfg.date_field, StrVal(<<>>))
        fv  == FirstValue(fieldnames, row)
        amt == ToFloat(RowGet(fieldnames, row, cfg.amount_field, IntZero))
    IN  IF idv.t # "str" \/ dv.t # "str" THEN <<>>
        ELSE IF Strip(idv.s) = <<>> \/ Strip(dv.s) = <<>> THEN <<>>
        ELSE IF ~IsNumericId(Strip(idv.s)) THEN <<>>
        ELSE IF fv.t # "str" THEN <<>>
        ELSE IF IsExcludedLabel(fv) THEN <<>>
        ELSE IF ~amt.ok THEN <<>>
        ELSE << [source |-> cfg.source_name,
                 order_amount |-> [neg |-> amt.neg, int |-> amt.int,
                                   frac |-> amt.frac],
                 order_id |-> Strip(idv.s),
                 order_date |-> ParseDateWithYear(Lex(Strip(dv.s)), now[1], now),
                 line |-> i] >>

IsBlankLine(l) == l = <<>> \/ (Len(l) = 1 /\ Strip(l[1]) = <<>>)

\* csv_content.strip().split('\n'): blank lines at both ends go, and so does
\* the white space around the text that is left.
StripSplit(content) ==
    IF \A i \in 1..Len(content) : IsBlankLine(content[i]) THEN << <<>> >>
    ELSE LET a == CHOOSE k \in 1..Len(content) :
                     /\ ~IsBlankLine(content[k])
                     /\ \A j \in 1..(k - 1) : IsBlankLine(content[j])
             b == CHOOSE k \in 1..Len(content) :
                     /\ ~IsBlankLine(content[k])
                     /\ \A j \in (k + 1)..Len(content) : IsBlankLine(content[j])
             mid == SubSeq(content, a, b)
             l == [mid EXCEPT ![1] = [@ EXCEPT ![1] = LStrip(@)]]
             n == Len(l)
         IN  [l EXCEPT ![n] = [@ EXCEPT ![Len(@)] = RStrip(@)]]

\* The lines parse_csv_source2 hands to DictReader.
Source2Lines(content, cfg) ==
    LET lines == StripSplit(content)
    IN  IF cfg.skip_rows > 0 /\ Len(lines) > cfg.skip_rows
        THEN SubSeq(lines, cfg.skip_rows + 1, Len(lines))
        ELSE lines

\* parse_csv_source2(csv_content)
ParseCsvSource2(content, cfg, now) ==
    LET r == DictReader(Source2Lines(content, cfg))
    IN  Flatten([i \in 1..Len(r.rows) |->
                    Source2Row(cfg, r.fieldnames, r.rows[i], i, now)])

(***************************************************************************)
(* Message content tree, extract_attachment, extract_csv_link              *)
(*                                                                         *)
(* A node of the tree is [mimeType, filename, data, att, parts]: data is   *)
(* the decoded inline payload (body.data), att the attachment reference    *)
(* (body.attachmentId, 0 when there is none).  A message is its payload    *)
(* node; the {} get_email_details returns on failure has no part and no    *)
(* body.                                                                   *)
(***************************************************************************)

\* An optional value: None, or the value returned.
None == [none |-> TRUE, val |-> <<>>]
Some(v) == [none |-> FALSE, val |-> v]

DotCsv == <<".", "c", "s", "v">>
S3Token == <<"s", "3", ".", "a", "m", "a", "z", "o", "n", "a", "w", "s", ".", "c", "o", "m">>
HttpScheme == <<"h", "t", "t", "p", ":", "/", "/">>
HttpsScheme == <<"h", "t", "t", "p", "s", ":", "/", "/">>

\* The index of the first top-level part whose filename ends in '.csv' and
\* that has an attachment reference, 0 if there is none.
FirstCsvPart(parts) ==
    LET ok(i) == EndsWith(parts[i].filename, DotCsv) /\ parts[i].att # 0
    IN  IF \E i \in 1..Len(parts) : ok(i)
        THEN CHOOSE i \in 1..Len(parts) : ok(i) /\ \A j \in 1..(i - 1) : ~ok(j)
        ELSE 0

\* extract_attachment(msg_id, message): fetch[a] is what fetching and decoding
\* attachment a gives: Some(text), or None when attachments().get(), the
\* base64 decoding or the utf-8 decoding raises.
ExtractAttachment(message, fetch) ==
    LET i == FirstCsvPart(message.parts)
    IN  IF i = 0 THEN None ELSE fetch[message.parts[i].att]

\* extract_body over a part and its sub-parts: the payloads of one MIME type,
\* concatenated in pre-order.
RECURSIVE Gather(_, _)
Gather(part, mime) ==
    (IF part.mimeType = mime THEN part.data ELSE <<>>)
        \o Flatten([i \in 1..Len(part.parts) |-> Gather(part.parts[i], mime)])

StartsAt(s, i, t) ==
    i >= 1 /\ i + Len(t) - 1 <= Len(s) /\ SubSeq(s, i, i + Len(t) - 1) = t

\* body_html and body_text of extract_csv_link.
Bodies(message) ==
    LET html == Flatten([i \in 1..Len(message.parts) |->
                            Gather(message.parts[i], "text/html")])
        text == Flatten([i \in 1..Len(message.parts) |->
                            Gather(message.parts[i], "text/plain")])
        decoded == message.data
        isHtml == \/ Contains(Lower(decoded), <<"<", "h", "t", "m", "l">>)
                  \/ Contains(Lower(decoded), <<"<", "a", " ">>)
    IN  IF html # <<>> \/ text # <<>> THEN [html |-> html, text |-> text]
        ELSE IF decoded = <<>> THEN [html |-> <<>>, text |-> <<>>]
        ELSE IF isHtml THEN [html |-> decoded, text |-> <<>>]
        ELSE [html |-> <<>>, text |-> decoded]

\* The characters that end a URL in the plain-text patterns, [\s<>"], and in
\* the HTML pattern, [\s<>"\'].
TextStop == Whitespace \cup {"<", ">", "\""}
HtmlStop == TextStop \cup {"'"}
Quotes == {"\"", "'"}

\* Length of the match of https?:// at s[i], 0 if there is none.
SchemeLen(s, i) ==
    IF StartsAt(s, i, HttpsScheme) THEN Len(HttpsScheme)
    ELSE IF StartsAt(s, i, HttpScheme) THEN Len(HttpScheme)
    ELSE 0

\* The index of the last character of the longest run from s[p] on without a
\* character of stop (p - 1 when the run is empty).
RunEnd(s, p, stop) ==
    CHOOSE e \in (p - 1)..Len(s) :
        /\ \A j \in p..e : s[j] \notin stop
        /\ (e = Len(s) \/ s[e + 1] \in stop)

\* The first index from i on where c occurs in s, Len(s) + 1 if nowhere.
NextOf(s, i, cs) ==
    CHOOSE g \in i..(Len(s) + 1) :
        /\ \A j \in i..(g - 1) : s[j] \notin cs
        /\ (g = Len(s) + 1 \/ s[g] \in cs)

\* A match of <a[^>]+href=["\']([^"\']+)["\'][^>]*> at s[i] (re.IGNORECASE):
\* [h, q, g] with the href s[h+6 .. q-1] and the closing '>' at g, or h = 0.
AnchorAt(s, i) ==
    LET low == Lower(s)
        gt == NextOf(s, i + 2, {">"})
        good(h) ==
            /\ StartsAt(low, h, <<"h", "r", "e", "f", "=">>)
            /\ h + 5 <= Len(s) /\ s[h + 5] \in Quotes
            /\ NextOf(s, h + 6, Quotes) \in (h + 7)..Len(s)
            /\ NextOf(s, NextOf(s, h + 6, Quotes) + 1, {">"}) <= Len(s)
        hs == {h \in (i + 3)..(gt - 6) : good(h)}
    IN  IF StartsAt(low, i, <<"<", "a">>) /\ hs # {}
        THEN LET h == CHOOSE x \in hs : \A y \in hs : y <= x
                 qt == NextOf(s, h + 6, Quotes)
             IN  [h |-> h, q |-> qt, g |-> NextOf(s, qt + 1, {">"})]
        ELSE [h |-> 0, q |-> 0, g |-> 0]

\* re.findall(href_pattern, body_html, re.IGNORECASE) from s[i] on.
RECURSIVE HrefsFrom(_, _)
HrefsFrom(s, i) ==
    IF i > Len(s) THEN <<>>
    ELSE LET m == AnchorAt(s, i)
         IN  IF m.h = 0 THEN HrefsFrom(s, i + 1)
             ELSE <<SubSeq(s, m.h + 6, m.q - 1)>> \o HrefsFrom(s, m.g + 1)

\* The first element of a sequence, if it has one.
FirstOf(ss) == IF ss = <<>> THEN None ELSE Some(ss[1])

\* for href in hrefs: '.csv' in href.lower() or 's3.amazonaws.com' in ...
AnchorLink(html) ==
    FirstOf(SelectSeq(HrefsFrom(html, 1),
                      LAMBDA h : \/ Contains(Lower(h), DotCsv)
                                 \/ Contains(Lower(h), S3Token)))

\* A match of https?://[^\s<>"\']+(?:\.csv|s3\.amazonaws\.com[^\s<>"\']*)
\* at s[i] (re.IGNORECASE): the index of its last character, 0 if none.
HtmlUrlEnd(s, i) ==
    LET low == Lower(s)
        p == i + SchemeLen(low, i)
        e == RunEnd(s, p, HtmlStop)
        ks == {k \in (p + 1)..e :
                 StartsAt(low, k, DotCsv) \/ StartsAt(low, k, S3Token)}
    IN  IF SchemeLen(low, i) = 0 \/ ks = {} THEN 0
        ELSE LET k == CHOOSE x \in ks : \A y \in ks : y <= x
             IN  IF StartsAt(low, k, DotCsv) THEN k + Len(DotCsv) - 1 ELSE e

\* A match of https?://[^\s<>"]+\.csv[^\s<>"]* at s[i] (re.IGNORECASE).
CsvUrlEnd(s, i) ==
    LET low == Lower(s)
        p == i + SchemeLen(low, i)
        e == RunEnd(s, p, TextStop)
    IN  IF SchemeLen(low, i) > 0
           /\ \E k \in (p + 1)..e : StartsAt(low, k, DotCsv)
        THEN e ELSE 0

\* A match of https?://[^\s<>"]*s3\.amazonaws\.com[^\s<>"]+ at s[i]
\* (re.IGNORECASE).
S3UrlEnd(s, i) ==
    LET low == Lower(s)
        p == i + SchemeLen(low, i)
        e == RunEnd(s, p, TextStop)
    IN  IF SchemeLen(low, i) > 0
           /\ \E k \in p..e : StartsAt(low, k, S3Token) /\ k + Len(S3Token) <= e
        THEN e ELSE 0

\* A match of https?://[^\s<>"]+ at s[i] (case-sensitive).
AnyUrlEnd(s, i) ==
    LET p == i + SchemeLen(s, i)
        e == RunEnd(s, p, TextStop)
    IN  IF SchemeLen(s, i) > 0 /\ e >= p THEN e ELSE 0

\* re.findall(pattern, s)[0], the leftmost match, given the end ends[i] of
\* the match at each s[i] (0 where the pattern does not match).
Leftmost(s, ends) ==
    IF \E i \in 1..Len(s) : ends[i] # 0
    THEN LET i == CHOOSE x \in 1..Len(s) :
                     ends[x] # 0 /\ \A y \in 1..(x - 1) : ends[y] = 0
         IN  Some(SubSeq(s, i, ends[i]))
    ELSE None

HtmlUrl(html) == Leftmost(html, [i \in 1..Len(html) |-> HtmlUrlEnd(html, i)])
CsvUrl(text) == Leftmost(text, [i \in 1..Len(text) |-> CsvUrlEnd(text, i)])
S3Url(text) == Leftmost(text, [i \in 1..Len(text) |-> S3UrlEnd(text, i)])

\* re.findall(r'https?://[^\s<>"]+', s) from s[i] on.
RECURSIVE LinksFrom(_, _)
LinksFrom(s, i) ==
    IF i > Len(s) THEN <<>>
    ELSE IF AnyUrlEnd(s, i) = 0 THEN LinksFrom(s, i + 1)
    ELSE <<SubSeq(s, i, AnyUrlEnd(s, i))>> \o LinksFrom(s, AnyUrlEnd(s, i) + 1)

\* for link in links: 'csv' in link.lower() or 'export' in link.lower()
KeywordLink(text) ==
    FirstOf(SelectSeq(LinksFrom(text, 1),
                      LAMBDA l : \/ Contains(Lower(l), <<"c", "s", "v">>)
                                 \/ Contains(Lower(l), <<"e", "x", "p", "o", "r", "t">>)))

\* The steps of extract_csv_link on body_html and on body_text.
HtmlLink(html) ==
    IF html = <<>> THEN None
    ELSE IF ~AnchorLink(html).none THEN AnchorLink(html)
    ELSE HtmlUrl(html)

TextLink(text) ==
    IF text = <<>> THEN None
    ELSE IF ~CsvUrl(text).none THEN CsvUrl(text)
    ELSE IF ~S3Url(text).none THEN S3Url(text)
    ELSE KeywordLink(text)

\* extract_csv_link(message)
ExtractCsvLink(message) ==
    LET b == Bodies(message)
    IN  IF ~HtmlLink(b.html).none THEN HtmlLink(b.html) ELSE TextLink(b.text)

(***************************************************************************)
(* The record store: check_notion_entry_exists and                         *)
(* create_or_update_notion_entry                                           *)
(*                                                                         *)
(* The store is the sequence of pages of the database in creation order;   *)
(* a page is identified by its position.  A page records the number        *)
(* written, key, and the name of the property it was written to, idprop.   *)
(*                                                                         *)
(* The outcome of an external call is "ok" or the kind of exception it     *)
(* raises: "HttpError" (googleapiclient.errors.HttpError) or "Exception"   *)
(* (any other subclass of Exception, such as a network failure).           *)
(***************************************************************************)

Errors == {"HttpError", "Exception"}

\* The kind of exception of an outcome; an HttpError carries its status.
Kind(outcome) ==
    IF outcome \in {"HttpError403", "HttpError500"} THEN "HttpError"
    ELSE outcome

\* The exception of an outcome leaves a function whose handlers catch the
\* kinds in catches.
Raises(outcome, catches) == Kind(outcome) \in Errors \ catches

DefaultIdProperty == <<"O", "r", "d", "e", "r", " ", "I", "D">>
QueryProperty == <<"O", "r", "d", "e", "r", " ", "I", "D">>

\* int(order_id) if order_id.isdigit() else 0
IdNumber(order_id) == IF IsDigit(order_id) THEN IntVal(order_id) ELSE 0

\* The pages the query of check_notion_entry_exists matches: those whose
\* property "Order ID" holds the number.
QueryMatches(pages, order_id) ==
    {p \in 1..Len(pages) : /\ pages[p].idprop = QueryProperty
                           /\ pages[p].key = IdNumber(order_id)}

\* The values check_notion_entry_exists can return (0 for None): the first of
\* the results, whose order the query leaves open, or None when nothing
\* matches or the query raises, which except Exception turns into None.
ExistingPageIds(pages, order_id, query) ==
    IF query = "ok" /\ QueryMatches(pages, order_id) # {}
    THEN QueryMatches(pages, order_id)
    ELSE {0}

\* not entry.get('order_id') or str(entry['order_id']).strip() == ''
IsBlankId(order_id) == Strip(order_id) = <<>>

\* The properties create_or_update_notion_entry writes.
Properties(entry, idp) ==
    [source |-> entry.source, amount |-> entry.order_amount, idprop |-> idp,
     key |-> IdNumber(entry.order_id), date |-> entry.order_date,
     checkbox |-> TRUE]

\* The kinds of exception the handler of create_or_update_notion_entry
\* catches, and the handler narrowed to one kind.
UpsertCatchesHttpErrorOnly == {"HttpError"}
UpsertCatches == {"HttpError", "Exception"}

\* create_or_update_notion_entry(entry), with existing the page id the query
\* returned and write the outcome of pages.update or pages.create:
\* the pages afterwards, what was done, and whether an exception leaves.
CreateOrUpdateNotionEntry(pages, entry, idp, existing, write) ==
    IF IsBlankId(entry.order_id)
    THEN [pages |-> pages, did |-> "skip", raised |-> FALSE]
    ELSE IF write # "ok"
    THEN [pages |-> pages, did |-> "failed",
          raised |-> Raises(write, UpsertCatches)]
    ELSE IF existing # 0
    THEN [pages |-> [pages EXCEPT ![existing] = Properties(entry, idp)],
          did |-> "update", raised |-> FALSE]
    ELSE [pages |-> Append(pages, Properties(entry, idp)),
          did |-> "create", raised |-> FALSE]

(***************************************************************************)
(* The date normalizers applied to bounded inputs                          *)
(***************************************************************************)

\* Numerals a date token is built from.
DateNums == {1, 2, 12, 13, 29, 31, 32}
NameMonths == {2, 5, 12}

DateTokens ==
    {<<Num(a), Sep("/"), Num(b)>> : a \in DateNums, b \in DateNums}
    \cup {<<Abbr(m), Sep(" "), Num(d)>> : m \in NameMonths, d \in {1, 29, 30, 32}}
    \cup {<<Full(m), Sep(" "), Num(d)>> : m \in NameMonths \ {5}, d \in {1, 29, 32}}
    \cup {<<Num(a), Sep("-"), Num(b), Sep("-"), Num(c)>> :
            a \in {2024, 13}, b \in {2, 13}, c \in {2, 29, 2024}}
    \cup {<<Num(a), Sep("/"), Num(b), Sep("/"), Num(c)>> :
            a \in {2, 13, 2024}, b \in {2, 13}, c \in {2, 2024}}
    \cup {<<Num(2024), Sep("-"), Num(3), Sep("-"), Num(1), Sep(" "),
            Num(23), Sep(":"), Num(59), Sep(":"), Num(0)>>,
          <<Junk>>, <<Num(5)>>, <<>>, NoneTok}

Years == {2024, 2026}
Todays == {<<2026, 11, 5>>, <<2024, 2, 29>>}

InitDate ==
    /\ pc = "date_call"
    /\ today \in Todays
    /\ env = NoValue
    /\ inp \in [tok : DateTokens, year : Years]
    /\ out = NoValue
    /\ run = NoValue
    /\ store = <<>>

CallParseDateWithYear ==
    /\ pc = "date_call"
    /\ pc' = "date_with_year_done"
    /\ out' = ParseDateWithYear(inp.tok, inp.year, today)
    /\ UNCHANGED <<today, env, inp, run, store>>

CallParseDate ==
    /\ pc = "date_call"
    /\ IsStr(inp.tok)
    /\ pc' = "date_done"
    /\ out' = ParseDate(inp.tok, today)
    /\ UNCHANGED <<today, env, inp, run, store>>

NextDate == CallParseDateWithYear \/ CallParseDate

SpecDate == InitDate /\ [][NextDate]_vars

(***************************************************************************)
(* The CSV parsers applied to bounded inputs                               *)
(***************************************************************************)

\* Rows of a CSV text after its header.
MaxRows == 2

F_name == <<"n", "a", "m", "e">>
F_id   == <<"i", "d">>
F_amt  == <<"a", "m", "t">>
F_date == <<"d", "a", "t", "e">>

GoodId   == <<"1", "0", "0", "1">>
GoodAmt  == <<"2", "5", ".", "5", "0">>
GoodDate == <<"3", "/", "4">>
Plain    == <<"x">>

IdCells ==
    {<<>>, <<"7">>, <<"1", "2", ".", "5">>, <<".", "5">>, <<"1", ".", "2", ".", "3">>, <<".">>, <<"T", "o", "t", "a", "l">>, <<" ", "8", " ">>, <<"1", " ", "2">>, <<"-", "5">>}
LabelCells ==
    {<<"T", "o", "t", "a", "l">>, <<" ", "S", "u", "b", "T", "o", "t", "a", "l", " ">>, <<"G", "r", "a", "n", "d", " ", "T", "o", "t", "a", "l">>, <<"s", "u", "m", "m", "a", "r", "y">>, <<"T", "o", "t", "a", "l", "s">>, <<>>}
AmtCells ==
    {<<"a", "b", "c">>, <<>>, <<" ", "7", " ">>, <<"-", "0", ".", "5">>}
DateCells ==
    {<<"2", "0", "2", "4", "-", "0", "3", "-", "0", "1">>, <<"1", "3", "/", "4">>, <<"F", "e", "b", " ", "2", "9">>, <<"n", "/", "a">>, <<>>, <<" ">>}

\* Rows under the header name,id,amt,date: one cell varies at a time, and
\* there are the summary rows of a report, a short row and a long one.
Rows4 ==
    {<<Plain, c, GoodAmt, GoodDate>> : c \in IdCells}
    \cup {<<c, GoodId, GoodAmt, GoodDate>> : c \in LabelCells}
    \cup {<<Plain, GoodId, c, GoodDate>> : c \in AmtCells}
    \cup {<<Plain, GoodId, GoodAmt, c>> : c \in DateCells}
    \cup { <<<<"T", "o", "t", "a", "l">>, <<>>, <<"9", "9", ".", "5">>, <<>>>>,
           <<<<"T", "o", "t", "a", "l">>, <<"T", "o", "t", "a", "l">>, <<"9", "9", ".", "5">>, <<"3", "/", "4">>>>,
           <<Plain, GoodId>>,
           <<Plain, GoodId, GoodAmt, GoodDate, <<"T", "o", "t", "a", "l">>>>,
           <<<<"T", "o", "t", "a", "l">>, GoodId, GoodAmt, GoodDate, Plain>>,
           <<>> }

Headers ==
    { <<F_name, F_id, F_amt, F_date>>,
      <<F_id, F_amt, F_date, F_name>>,
      <<F_name, F_id, F_amt, F_date, F_name>> }

Banner == << <<"R", "e", "p", "o", "r", "t">> >>

RowSeqs(S, n) == UNION {[1..k -> S] : k \in 0..n}

\* Inputs that exercise the row filters, and inputs that exercise the
\* leading lines parse_csv_source2 drops.
CsvInputs ==
    {[content |-> <<h>> \o rows, skip_rows |-> 0, id_field |-> F_id] :
        h \in Headers, rows \in RowSeqs(Rows4, MaxRows)}
    \cup
    {[content |-> pre \o rows, skip_rows |-> k, id_field |-> f] :
        pre \in { <<>>, << <<F_name, F_id, F_amt, F_date>> >>,
                  <<Banner, <<F_name, F_id, F_amt, F_date>> >>,
                  << <<>>, Banner, <<F_name, F_id, F_amt, F_date>> >> },
        rows \in RowSeqs({<<Plain, GoodId, GoodAmt, GoodDate>>,
                          <<F_name, F_id, F_amt, F_date>>, <<>>}, MaxRows),
        k \in {0, 1, 2},
        f \in {F_id, PyNone}}

InitCsv ==
    /\ pc = "csv_call"
    /\ today = <<2026, 11, 5>>
    /\ \E i \in CsvInputs :
          /\ inp = [content |-> i.content]
          /\ env = [source_name |-> "Source", amount_field |-> F_amt,
                    id_field |-> i.id_field, date_field |-> F_date,
                    skip_rows |-> i.skip_rows]
    /\ out = NoValue
    /\ run = NoValue
    /\ store = <<>>

CallParseCsvSource1 ==
    /\ pc = "csv_call"
    /\ pc' = "csv1_done"
    /\ out' = ParseCsvSource1(inp.content, env, today)
    /\ UNCHANGED <<today, env, inp, run, store>>

CallParseCsvSource2 ==
    /\ pc = "csv_call"
    /\ pc' = "csv2_done"
    /\ out' = ParseCsvSource2(inp.content, env, today)
    /\ UNCHANGED <<today, env, inp, run, store>>

NextCsv == CallParseCsvSource1 \/ CallParseCsvSource2

SpecCsv == InitCsv /\ [][NextCsv]_vars

(***************************************************************************)
(* The content extractors applied to bounded messages                      *)
(***************************************************************************)

MaxParts == 2
MaxUrls == 2

CsvName == <<"r", ".", "c", "s", "v">>
TxtName == <<"r", ".", "t", "x", "t">>

FilePart(fn, a) ==
    [mimeType |-> "application/octet-stream", filename |-> fn, data |-> <<>>,
     att |-> a, parts |-> <<>>]

TextPart(mime, d) ==
    [mimeType |-> mime, filename |-> <<>>, data |-> d, att |-> 0,
     parts |-> <<>>]

Multipart(ps) ==
    [mimeType |-> "multipart/mixed", filename |-> <<>>, data |-> <<>>,
     att |-> 0, parts |-> ps]

\* The text of the two attachments of the mailbox.
AttText(a) == << <<F_name, F_id, F_amt, F_date>>,
                 <<Plain, IF a = 1 THEN GoodId ELSE <<"2", "0", "0", "2">>,
                   GoodAmt, GoodDate>> >>

FetchOutcomes == {"ok", "http_error", "bad_encoding"}

Fetched(outcome) ==
    [a \in DOMAIN outcome |->
        IF outcome[a] = "ok" THEN Some(AttText(a)) ELSE None]

AttLeaves ==
    {FilePart(CsvName, 1), FilePart(CsvName, 0), FilePart(TxtName, 2),
     FilePart(CsvName, 2)}

AttParts ==
    AttLeaves \cup {Multipart(ps) : ps \in RowSeqs(AttLeaves, MaxParts) \ {<<>>}}

AttMessages ==
    {Multipart(ps) : ps \in RowSeqs(AttParts, MaxParts)}
        \cup {FilePart(CsvName, 1)}

InitAttach ==
    /\ pc = "attach_call"
    /\ today = <<2026, 11, 5>>
    /\ env = NoValue
    /\ inp \in [message : AttMessages, fetch : [1..2 -> FetchOutcomes]]
    /\ out = NoValue
    /\ run = NoValue
    /\ store = <<>>

CallExtractAttachment ==
    /\ pc = "attach_call"
    /\ pc' = "attach_done"
    /\ out' = ExtractAttachment(inp.message, Fetched(inp.fetch))
    /\ UNCHANGED <<today, env, inp, run, store>>

NextAttach == CallExtractAttachment

SpecAttach == InitAttach /\ [][NextAttach]_vars

U_s3 == <<"h", "t", "t", "p", "s", ":", "/", "/", "b", ".", "s", "3", ".", "a", "m", "a", "z", "o", "n", "a", "w", "s", ".", "c", "o", "m", "/", "k">>
U_s3bare == <<"h", "t", "t", "p", "s", ":", "/", "/", "b", ".", "s", "3", ".", "a", "m", "a", "z", "o", "n", "a", "w", "s", ".", "c", "o", "m">>
U_s3path == <<"h", "t", "t", "p", "s", ":", "/", "/", "s", "3", ".", "a", "m", "a", "z", "o", "n", "a", "w", "s", ".", "c", "o", "m", "/", "b", "/", "k">>
U_signed == <<"h", "t", "t", "p", "s", ":", "/", "/", "b", ".", "s", "3", ".", "a", "m", "a", "z", "o", "n", "a", "w", "s", ".", "c", "o", "m", "/", "r", ".", "c", "s", "v", "?", "s", "=", "1">>
U_csv == <<"h", "t", "t", "p", "s", ":", "/", "/", "x", ".", "i", "o", "/", "r", ".", "c", "s", "v">>
U_csvq == <<"h", "t", "t", "p", "s", ":", "/", "/", "x", ".", "i", "o", "/", "r", ".", "c", "s", "v", "?", "t", "=", "1">>
U_export == <<"h", "t", "t", "p", ":", "/", "/", "x", ".", "i", "o", "/", "e", "x", "p", "o", "r", "t">>
U_home == <<"h", "t", "t", "p", "s", ":", "/", "/", "x", ".", "i", "o", "/", "h", "o", "m", "e">>

TextUrls == {U_s3, U_s3bare, U_s3path, U_csv, U_csvq, U_export, U_home}

Anchor(u) == <<"<", "a", " ", "h", "r", "e", "f", "=", "\"">> \o u \o <<"\"", ">", "x", "<", "/", "a", ">">>
AnchorClass(u) == <<"<", "a", " ", "c", "l", "a", "s", "s", "=", "'", "b", "'", " ", "h", "r", "e", "f", "=", "'">> \o u \o <<"'", ">", "x", "<", "/", "a", ">">>
RawUrl(u) == <<"<", "p", ">">> \o u \o <<"<", "/", "p", ">">>

HtmlItems ==
    {Anchor(u) : u \in {U_s3, U_csvq, U_home}} \cup {AnchorClass(U_export)}
        \cup {RawUrl(u) : u \in {U_signed, U_s3path, U_csvq, U_home}}

\* The strings of S joined, each followed by a blank.
RECURSIVE Join(_)
Join(ss) == IF ss = <<>> THEN <<>> ELSE ss[1] \o <<" ">> \o Join(Tail(ss))

LinkBodies ==
    {[html |-> <<>>, text |-> Join(us)] : us \in RowSeqs(TextUrls, MaxUrls)}
        \cup {[html |-> Join(hs), text |-> t] :
                hs \in RowSeqs(HtmlItems, MaxUrls) \ {<<>>},
                t \in {<<>>, Join(<<U_csv>>), Join(<<U_export, U_s3>>)}}

\* multipart/alternative, the same nested in multipart/mixed, and a message
\* without parts whose body is read directly.
LinkMessages ==
    {Multipart(<<TextPart("text/plain", b.text), TextPart("text/html", b.html)>>) :
        b \in LinkBodies}
    \cup {Multipart(<<Multipart(<<TextPart("text/plain", b.text),
                                  TextPart("text/html", b.html)>>),
                      FilePart(TxtName, 1)>>) : b \in LinkBodies}
    \cup {TextPart("text/html", b.html \o b.text) : b \in LinkBodies}

InitLink ==
    /\ pc = "link_call"
    /\ today = <<2026, 11, 5>>
    /\ env = NoValue
    /\ inp \in [message : LinkMessages]
    /\ out = NoValue
    /\ run = NoValue
    /\ store = <<>>

CallExtractCsvLink ==
    /\ pc = "link_call"
    /\ pc' = "link_done"
    /\ out' = ExtractCsvLink(inp.message)
    /\ UNCHANGED <<today, env, inp, run, store>>

NextLink == CallExtractCsvLink

SpecLink == InitLink /\ [][NextLink]_vars

(***************************************************************************)
(* A sequence of upserts                                                   *)
(***************************************************************************)

MaxUpserts == 3

OtherId == <<"1", "0", "0", "2">>
OtherAmt == <<"7">>
CustomIdProperty == <<"R", "e", "f">>
IdProperties == {DefaultIdProperty, CustomIdProperty}

CsvConfig(name) ==
    [source_name |-> name, amount_field |-> F_amt, id_field |-> F_id,
     date_field |-> F_date, skip_rows |-> 0]

CsvHeader == <<F_name, F_id, F_amt, F_date>>

\* The records the parsers make of rows with two ids and two amounts, and a
\* record with a blank id.
UpsertEntries ==
    LET es == ParseCsvSource1(<<CsvHeader,
                                <<Plain, GoodId, GoodAmt, GoodDate>>,
                                <<Plain, GoodId, OtherAmt, GoodDate>>,
                                <<Plain, OtherId, GoodAmt, GoodDate>>>>,
                              CsvConfig("Source1"), <<2026, 11, 5>>)
    IN  {es[i] : i \in 1..Len(es)} \cup {[es[1] EXCEPT !.order_id = <<" ">>]}

NotionOutcomes == {"ok", "Exception"}

InitUpsert ==
    /\ pc = "upsert_call"
    /\ today = <<2026, 11, 5>>
    /\ env \in [id_property : IdProperties]
    /\ inp = NoValue
    /\ out = NoValue
    /\ run = [n |-> 0, clean |-> TRUE, last |-> NoValue]
    /\ store = <<>>

CallCreateOrUpdate ==
    /\ pc = "upsert_call"
    /\ run.n < MaxUpserts
    /\ \E entry \in UpsertEntries, query \in NotionOutcomes,
          write \in NotionOutcomes :
          \E existing \in ExistingPageIds(store, entry.order_id, query) :
             LET r == CreateOrUpdateNotionEntry(store, entry, env.id_property,
                                                existing, write)
             IN  /\ store' = r.pages
                 /\ run' = [n |-> run.n + 1,
                            clean |-> /\ run.clean
                                      /\ (r.did = "skip"
                                            \/ (query = "ok" /\ write = "ok")),
                            last |-> [entry |-> entry, did |-> r.did]]
    /\ UNCHANGED <<pc, today, env, inp, out>>

NextUpsert == CallCreateOrUpdate

SpecUpsert == InitUpsert /\ [][NextUpsert]_vars

(***************************************************************************)
(* process() and the script entry point                                    *)
(***************************************************************************)

GmailOutcomes == {"ok", "HttpError403", "HttpError500", "Exception"}
DownloadOutcomes == {"ok", "HTTPError", "Exception"}

\* What the handlers of each function catch.
SearchCatches == {"HttpError"}
GetCatches == {"HttpError"}
ArchiveCatches == {"HttpError"}
TrashCatches == {"HttpError"}
AlertCatchesHttpErrorOnly == {"HttpError"}
AlertCatches == {"HttpError", "Exception"}

\* The {} get_email_details returns when the fetch fails.
EmptyMessage == Multipart(<<>>)

LinkMessage == Multipart(<<TextPart("text/plain", Join(<<U_export, U_s3>>))>>)
NoLinkMessage == Multipart(<<TextPart("text/plain", Join(<<U_home>>))>>)
AttachmentMessage == Multipart(<<TextPart("text/plain", <<"x">>), FilePart(CsvName, 1)>>)
NoAttachmentMessage == Multipart(<<TextPart("text/plain", <<"x">>)>>)

\* What the link serves: two rows with one id, two rows with two ids, a
\* header alone, nothing.
Downloads ==
    {<<CsvHeader, <<Plain, GoodId, GoodAmt, GoodDate>>,
                  <<Plain, GoodId, OtherAmt, GoodDate>>>>,
     <<CsvHeader, <<Plain, GoodId, GoodAmt, GoodDate>>,
                  <<Plain, OtherId, OtherAmt, GoodDate>>>>,
     <<CsvHeader>>,
     <<>>}

SourceNames == <<"Source1", "Source2">>
AlertEmails == {"", "ops@x.io"}

Init ==
    /\ pc = "start"
    /\ today = <<2026, 11, 5>>
    /\ env \in [id_property : IdProperties, alert_email : AlertEmails]
    /\ inp \in [messages : {<<m1, m2>> : m1 \in {LinkMessage, NoLinkMessage},
                                          m2 \in {AttachmentMessage,
                                                  NoAttachmentMessage}},
                download : Downloads]
    /\ out = NoValue
    /\ run = [setup |-> "pending", src |-> 1,
              missing_reports |-> <<>>, processed_emails |-> <<>>,
              entries_created |-> 0, email_id |-> 0,
              message |-> EmptyMessage, csv_link |-> <<>>,
              csv_content |-> <<>>, entries |-> <<>>, i |-> 1, k |-> 1,
              searched |-> {}, batch |-> <<0, 0>>, attempted |-> {},
              failed |-> {},
              written |-> 0, alerts |-> <<>>, sent |-> <<>>,
              mail_ops |-> {}]
    /\ store = <<>>

\* An exception leaves process(): the handler of the entry point prints the
\* trace and calls exit(1).
Crash ==
    /\ pc' = "exit"
    /\ out' = [status |-> 1, summary |-> None]

\* The locals when the work on a source ends, and where process() goes on.
AfterSource(r) ==
    IF r.src = 1
    THEN [r EXCEPT !.src = 2, !.email_id = 0, !.message = EmptyMessage,
                   !.csv_content = <<>>, !.entries = <<>>, !.i = 1]
    ELSE [r EXCEPT !.k = 1]

\* The cleanup entered as soon as one source is done.
PcCleanupAfterEachSource(r) == "cleanup"

PcAfterSource(r) == IF r.src = 1 THEN "search" ELSE "cleanup"

\* missing_reports.append(source_name)
Missing(r) ==
    AfterSource([r EXCEPT !.missing_reports = Append(@, SourceNames[r.src])])

\* processor = EmailProcessor()
Setup ==
    /\ pc = "start"
    /\ \E o \in {"ok", "Exception"} :
          IF o = "ok"
          THEN /\ pc' = "search"
               /\ run' = [run EXCEPT !.setup = "ok"]
               /\ UNCHANGED out
          ELSE /\ Crash
               /\ run' = [run EXCEPT !.setup = "failed"]
    /\ UNCHANGED <<today, env, inp, store>>

\* email_id = self.search_email(query) and the branch on it
SearchEmail ==
    /\ pc = "search"
    /\ \E o \in {"found", "none"} \cup (GmailOutcomes \ {"ok"}) :
          LET r == [run EXCEPT !.searched = @ \cup {run.src}]
          IN  IF Raises(o, SearchCatches)
              THEN Crash /\ run' = r
              ELSE IF o = "found"
              THEN /\ pc' = "get"
                   /\ run' = [r EXCEPT !.email_id = r.src]
                   /\ UNCHANGED out
              ELSE /\ pc' = PcAfterSource(r)
                   /\ run' = Missing(r)
                   /\ UNCHANGED out
    /\ UNCHANGED <<today, env, inp, store>>

\* message = self.get_email_details(email_id)
GetEmailDetails ==
    /\ pc = "get"
    /\ \E o \in GmailOutcomes :
          IF Raises(o, GetCatches)
          THEN Crash /\ UNCHANGED run
          ELSE /\ pc' = "extract"
               /\ run' = [run EXCEPT !.message =
                            IF o = "ok" THEN inp.messages[run.src]
                            ELSE EmptyMessage]
               /\ UNCHANGED out
    /\ UNCHANGED <<today, env, inp, store>>

\* csv_link = self.extract_csv_link(message) and the branch on it
ExtractLinkStep ==
    /\ pc = "extract"
    /\ run.src = 1
    /\ LET link == ExtractCsvLink(run.message)
       IN  IF link.none
           THEN pc' = PcAfterSource(run) /\ run' = Missing(run)
           ELSE pc' = "download" /\ run' = [run EXCEPT !.csv_link = link.val]
    /\ UNCHANGED <<today, env, inp, out, store>>

\* csv_content = self.download_csv(csv_link) and the branch on it
DownloadCsv ==
    /\ pc = "download"
    /\ \E o \in DownloadOutcomes :
          IF o = "ok" /\ inp.download # <<>>
          THEN /\ pc' = "parse"
               /\ run' = [run EXCEPT !.csv_content = inp.download]
          ELSE /\ pc' = PcAfterSource(run)
               /\ run' = Missing(run)
    /\ UNCHANGED <<today, env, inp, out, store>>

\* csv_content = self.extract_attachment(email_id, message) and the branch
ExtractAttachmentStep ==
    /\ pc = "extract"
    /\ run.src = 2
    /\ \E f \in FetchOutcomes :
          LET content == ExtractAttachment(run.message,
                                           Fetched([a \in 1..2 |-> f]))
          IN  IF content.none \/ content.val = <<>>
              THEN pc' = PcAfterSource(run) /\ run' = Missing(run)
              ELSE /\ pc' = "parse"
                   /\ run' = [run EXCEPT !.csv_content = content.val]
    /\ UNCHANGED <<today, env, inp, out, store>>

\* entries = self.parse_csv_source1(csv_content) / parse_csv_source2
ParseCsv ==
    /\ pc = "parse"
    /\ pc' = "upsert"
    /\ LET entries == IF run.src = 1
                      THEN ParseCsvSource1(run.csv_content,
                                           CsvConfig(SourceNames[1]), today)
                      ELSE ParseCsvSource2(run.csv_content,
                                           CsvConfig(SourceNames[2]), today)
       IN  run' = [run EXCEPT !.i = 1, !.entries = entries,
                              !.batch[run.src] = Len(entries)]
    /\ UNCHANGED <<today, env, inp, out, store>>

\* One turn of: for entry in entries:
\*                  self.create_or_update_notion_entry(entry)
\*                  entries_created += 1
UpsertEntry ==
    /\ pc = "upsert"
    /\ run.i <= Len(run.entries)
    /\ \E query \in NotionOutcomes, write \in NotionOutcomes :
          \E existing \in ExistingPageIds(store, run.entries[run.i].order_id,
                                          query) :
             LET r == CreateOrUpdateNotionEntry(store, run.entries[run.i],
                                                env.id_property, existing,
                                                write)
                 tried == [run EXCEPT
                             !.attempted = @ \cup {<<run.src, run.i>>},
                             !.failed = IF query # "ok" \/ r.did = "failed"
                                        THEN @ \cup {<<run.src, run.i>>}
                                        ELSE @,
                             !.written = IF r.did \in {"create", "update"}
                                         THEN @ + 1 ELSE @]
             IN  IF r.raised
                 THEN /\ Crash
                      /\ run' = tried
                      /\ UNCHANGED store
                 ELSE /\ pc' = "upsert"
                      /\ store' = r.pages
                      /\ run' = [tried EXCEPT !.entries_created = @ + 1,
                                              !.i = @ + 1]
                      /\ UNCHANGED out
    /\ UNCHANGED <<today, env, inp>>

\* processed_emails.append((source_name, email_id)) after the loop
FinishSource ==
    /\ pc = "upsert"
    /\ run.i > Len(run.entries)
    /\ pc' = PcAfterSource(run)
    /\ run' = AfterSource([run EXCEPT !.processed_emails =
                  Append(@, <<SourceNames[run.src], run.email_id>>)])
    /\ UNCHANGED <<today, env, inp, out, store>>

\* One turn of the cleanup loop: archive_or_delete_email(msg_id) up to the
\* call of trash.
ArchiveEmail ==
    /\ pc = "cleanup"
    /\ run.k <= Len(run.processed_emails)
    /\ \E o \in GmailOutcomes :
          LET id == run.processed_emails[run.k][2]
              r == [run EXCEPT !.mail_ops = @ \cup {<<id, "archive", o>>}]
          IN  IF Raises(o, ArchiveCatches)
              THEN Crash /\ run' = r
              ELSE IF o = "HttpError403"
              THEN pc' = "trash" /\ run' = r /\ UNCHANGED out
              ELSE /\ pc' = "cleanup"
                   /\ run' = [r EXCEPT !.k = @ + 1]
                   /\ UNCHANGED out
    /\ UNCHANGED <<today, env, inp, store>>

\* The fallback of archive_or_delete_email: messages().trash()
TrashEmail ==
    /\ pc = "trash"
    /\ \E o \in GmailOutcomes :
          LET id == run.processed_emails[run.k][2]
              r == [run EXCEPT !.mail_ops = @ \cup {<<id, "trash", o>>}]
          IN  IF Raises(o, TrashCatches)
              THEN Crash /\ run' = r
              ELSE /\ pc' = "cleanup"
                   /\ run' = [r EXCEPT !.k = @ + 1]
                   /\ UNCHANGED out
    /\ UNCHANGED <<today, env, inp, store>>

\* send_alert_email(missing_reports): nothing is sent without an address;
\* the message sent names the reports joined by ' and '.
SendAlertEmail(r, o) ==
    IF env.alert_email = "" \/ o # "ok" THEN r
    ELSE [r EXCEPT !.sent = Append(@, [to |-> env.alert_email,
                                       missing |-> r.missing_reports])]

\* if missing_reports: self.send_alert_email(missing_reports)
AlertStep ==
    /\ pc = "cleanup"
    /\ run.k > Len(run.processed_emails)
    /\ IF run.missing_reports = <<>>
       THEN pc' = "summary" /\ UNCHANGED <<run, out>>
       ELSE \E o \in GmailOutcomes :
               LET r == [run EXCEPT !.alerts = Append(@, run.missing_reports)]
               IN  IF env.alert_email # "" /\ Raises(o, AlertCatches)
                   THEN Crash /\ run' = r
                   ELSE /\ pc' = "summary"
                        /\ run' = SendAlertEmail(r, o)
                        /\ UNCHANGED out
    /\ UNCHANGED <<today, env, inp, store>>

\* The summary lines, the return of process() and the exit of the script.
Summary ==
    /\ pc = "summary"
    /\ pc' = "exit"
    /\ out' = [status |-> 0,
               summary |-> Some([processed |-> Len(run.processed_emails),
                                 synced |-> run.entries_created,
                                 missing |-> Len(run.missing_reports)])]
    /\ UNCHANGED <<today, env, inp, run, store>>

Next ==
    \/ Setup
    \/ SearchEmail
    \/ GetEmailDetails
    \/ ExtractLinkStep
    \/ DownloadCsv
    \/ ExtractAttachmentStep
    \/ ParseCsv
    \/ UpsertEntry
    \/ FinishSource
    \/ ArchiveEmail
    \/ TrashEmail
    \/ AlertStep
    \/ Summary

Spec == Init /\ [][Next]_vars

(***************************************************************************)
(* Claims about the date normalizers                                       *)
(***************************************************************************)

IsSlashPair(tok) ==
    Len(tok) = 3 /\ tok[1].k = "num" /\ tok[2].k = "/" /\ tok[3].k = "num"

IsNamedDay(tok) ==
    Len(tok) = 3 /\ tok[1].k \in {"abbr", "full"} /\ tok[2].k = " "
                 /\ tok[3].k = "num"

\* The token parses under none of the four year-less patterns.
NoYearlessPattern(tok) ==
    /\ ~(IsSlashPair(tok) /\ ValidDate(DefaultYear, tok[1].v, tok[3].v))
    /\ ~(IsSlashPair(tok) /\ ValidDate(DefaultYear, tok[3].v, tok[1].v))
    /\ ~(IsNamedDay(tok) /\ ValidDate(DefaultYear, tok[1].v, tok[3].v))

\* The token parses under none of the seven full-date patterns.
NoFullPattern(tok) ==
    \A i \in 1..Len(FullDateFormats) : ~Strptime(tok, FullDateFormats[i]).ok

\* The part of C10 that the code and the claim agree on: the order M/D, D/M,
\* abbreviated month, full month, the stamped year, and the fall-through to
\* the full-date normalizer.
C10_Chain ==
    pc = "date_with_year_done" /\ IsStr(inp.tok) =>
        LET tok == inp.tok
        IN  /\ IsSlashPair(tok) /\ ValidDate(DefaultYear, tok[1].v, tok[3].v)
                => out = <<inp.year, tok[1].v, tok[3].v>>
            /\ IsSlashPair(tok) /\ ~ValidDate(DefaultYear, tok[1].v, tok[3].v)
                                /\ ValidDate(DefaultYear, tok[3].v, tok[1].v)
                => out = <<inp.year, tok[3].v, tok[1].v>>
            /\ IsNamedDay(tok) /\ ValidDate(DefaultYear, tok[1].v, tok[3].v)
                => out = <<inp.year, tok[1].v, tok[3].v>>
            /\ NoYearlessPattern(tok) => out = ParseDate(tok, today)

\* C10 (as amended): _parse_date_with_year tries M/D, D/M, abbreviated-month D,
\* full-month D in that order and stamps the supplied year on the first that
\* parses (a/b with a, b in 1..12 is month a, day b); if none parses it
\* returns the full-date normalizer's result, which for a string token that
\* parses under no full-date pattern either is today's date; '<year>-01-01'
\* is returned only when the argument is not a string.
C10_YearlessFallbackChain ==
    /\ C10_Chain
    /\ pc = "date_with_year_done" /\ IsStr(inp.tok)
          /\ NoYearlessPattern(inp.tok) /\ NoFullPattern(inp.tok)
        => out = today
    /\ pc = "date_with_year_done" /\ ~IsStr(inp.tok)
        => out = <<inp.year, 1, 1>>

\* C10 witness: a string token that parses under no pattern at all has been
\* normalized in a year whose 1 January is not today.
C10_Witness ==
    /\ pc = "date_with_year_done"
    /\ IsStr(inp.tok) /\ inp.tok # <<>>
    /\ NoYearlessPattern(inp.tok) /\ NoFullPattern(inp.tok)
    /\ out = today /\ today # <<inp.year, 1, 1>>

\* C10 (as claimed): on total failure, i.e. when the token parses under no
\* year-less pattern and under no full-date pattern, the result is
\* '<year>-01-01'.
C10_Original ==
    /\ C10_Chain
    /\ pc = "date_with_year_done" /\ IsStr(inp.tok)
          /\ NoYearlessPattern(inp.tok) /\ NoFullPattern(inp.tok)
        => out = <<inp.year, 1, 1>>

(***************************************************************************)
(* Claims about the CSV parsers                                            *)
(***************************************************************************)

CsvDone == pc \in {"csv1_done", "csv2_done"}

\* The header and the rows the parser that ran read.
ReaderSeen ==
    IF pc = "csv1_done" THEN DictReader(inp.content)
    ELSE DictReader(Source2Lines(inp.content, env))

\* Digits with at most one '.', and at least one digit.
NumericToken(s) ==
    /\ \A i \in 1..Len(s) : s[i] \in Digits \cup {"."}
    /\ Cardinality({i \in 1..Len(s) : s[i] = "."}) <= 1
    /\ \E i \in 1..Len(s) : s[i] \in Digits

\* The id field of the i-th row read.
IdValue(i) ==
    RowGet(ReaderSeen.fieldnames, ReaderSeen.rows[i], env.id_field,
           StrVal(<<>>))

HasValidId(i) == IdValue(i).t = "str" /\ NumericToken(Strip(IdValue(i).s))

EmittedFrom(i) == \E k \in 1..Len(out) : out[k].line = i

\* C6: for both parsers, a row whose id field is blank, a label such as
\* "Total", or any string that is not a numeric token (digits with at most
\* one '.') produces no output record; every record of the output has a
\* non-empty numeric-token order_id, the stripped id field of its row, and a
\* well-formed, non-empty order_date.
C6_OrderIdGate ==
    CsvDone =>
        /\ \A i \in 1..Len(ReaderSeen.rows) : ~HasValidId(i) => ~EmittedFrom(i)
        /\ \A k \in 1..Len(out) :
              /\ out[k].line \in 1..Len(ReaderSeen.rows)
              /\ out[k].order_id # <<>>
              /\ NumericToken(out[k].order_id)
              /\ out[k].order_id = Strip(IdValue(out[k].line).s)
              /\ Len(out[k].order_date) = 3
              /\ ValidDate(out[k].order_date[1], out[k].order_date[2],
                           out[k].order_date[3])

\* C6 witness: a parser has read a row whose id is text but no numeric token
\* (its date and amount being fine) next to a row it emitted.
C6_Witness ==
    /\ CsvDone
    /\ Len(out) >= 1
    /\ \E i \in 1..Len(ReaderSeen.rows) :
          /\ IdValue(i).t = "str" /\ Strip(IdValue(i).s) # <<>>
          /\ Contains(IdValue(i).s, <<".">>)
          /\ ~HasValidId(i)
          /\ ~EmittedFrom(i)

\* The first cell of the i-th row read is one of the four labels.
FirstColumnIsLabel(i) ==
    /\ ReaderSeen.rows[i] # <<>>
    /\ Lower(Strip(ReaderSeen.rows[i][1])) \in ExcludedLabels

\* The name of the first column heads no other column.
FirstNameUnique ==
    /\ ReaderSeen.fieldnames # <<>>
    /\ \A j \in 2..Len(ReaderSeen.fieldnames) :
          ReaderSeen.fieldnames[j] # ReaderSeen.fieldnames[1]

\* The i-th row read passes every other filter of the parsers: its id is a
\* numeric token, its date is not blank and its amount is a number.
OtherwiseEmitted(i) ==
    LET dv == RowGet(ReaderSeen.fieldnames, ReaderSeen.rows[i],
                     env.date_field, StrVal(<<>>))
    IN  /\ HasValidId(i)
        /\ dv.t = "str" /\ Strip(dv.s) # <<>>
        /\ ToFloat(RowGet(ReaderSeen.fieldnames, ReaderSeen.rows[i],
                          env.amount_field, IntZero)).ok

\* C7 (as amended): Parser B (parse_csv_source2) emits no record from a row
\* whose first column is total / summary / subtotal / grand total
\* (case-insensitive, surrounding blanks ignored), even when its id column is
\* a valid numeric token and its date is not blank, provided the first
\* column's name is not repeated in the header (the check reads the value
\* kept under that name); Parser A has no such exclusion.
C7_LabelExclusionParserB ==
    pc = "csv2_done" /\ FirstNameUnique =>
        \A i \in 1..Len(ReaderSeen.rows) :
            FirstColumnIsLabel(i) => ~EmittedFrom(i)

\* C7 witness: Parser B has dropped a row only for its first column.
C7_Witness ==
    /\ pc = "csv2_done" /\ FirstNameUnique
    /\ \E i \in 1..Len(ReaderSeen.rows) :
          FirstColumnIsLabel(i) /\ OtherwiseEmitted(i) /\ ~EmittedFrom(i)

\* C7 (as claimed): neither parser emits a record from a row whose first
\* column is one of the four labels.
C7_Original ==
    CsvDone =>
        \A i \in 1..Len(ReaderSeen.rows) :
            FirstColumnIsLabel(i) => ~EmittedFrom(i)

(***************************************************************************)
(* Claims about the content extractors                                     *)
(***************************************************************************)

\* The nodes of a content tree in pre-order.
RECURSIVE PreOrder(_)
PreOrder(node) ==
    <<node>> \o Flatten([i \in 1..Len(node.parts) |-> PreOrder(node.parts[i])])

IsCsvAttachment(node) == EndsWith(node.filename, DotCsv) /\ node.att # 0

\* C9: extract_attachment returns the decoded content of the first part in
\* pre-order, at any depth below the payload and not only among the top-level
\* parts, whose filename ends in '.csv' and that carries an attachment
\* reference; it returns nothing only if no part qualifies or the fetch or
\* the decoding fails.
C9_WholeTreePreOrderScan ==
    pc = "attach_done" =>
        LET found == SelectSeq(Tail(PreOrder(inp.message)), IsCsvAttachment)
        IN  out = IF found = <<>> THEN None
                  ELSE Fetched(inp.fetch)[found[1].att]

\* The maximal runs of s without a character of stop, left to right.
RECURSIVE Split(_, _)
Split(s, stop) ==
    IF s = <<>> THEN <<>>
    ELSE IF s[1] \in stop THEN Split(Tail(s), stop)
    ELSE LET e == RunEnd(s, 1, stop)
         IN  <<SubSeq(s, 1, e)>> \o Split(SubSeq(s, e + 1, Len(s)), stop)

\* The URLs a body holds: its runs that start with http:// or https://.
UrlsIn(s, stop) ==
    SelectSeq(Split(s, stop), LAMBDA w : SchemeLen(Lower(w), 1) > 0)

HasDotCsv(u) == Contains(Lower(u), DotCsv)
HasStorageToken(u) == Contains(Lower(u), S3Token)
HasKeyword(u) ==
    \/ Contains(Lower(u), <<"c", "s", "v">>)
    \/ Contains(Lower(u), <<"e", "x", "p", "o", "r", "t">>)

\* The candidate of each step of the precedence, as the steps are described.
StepCandidates(html, text) ==
    << FirstOf(SelectSeq(HrefsFrom(html, 1),
                         LAMBDA h : HasDotCsv(h) \/ HasStorageToken(h))),
       FirstOf(SelectSeq(UrlsIn(html, HtmlStop),
                         LAMBDA u : \/ EndsWith(Lower(u), DotCsv)
                                    \/ HasStorageToken(u))),
       FirstOf(SelectSeq(UrlsIn(text, TextStop), HasDotCsv)),
       FirstOf(SelectSeq(UrlsIn(text, TextStop), HasStorageToken)),
       FirstOf(SelectSeq(UrlsIn(text, TextStop), HasKeyword)) >>

\* C8: link extraction returns the candidate of the first step that has one,
\* in the order anchor href, raw-HTML URL, plain-text '.csv' URL, plain-text
\* storage URL, plain-text 'csv'/'export' URL, and nothing when no step has a
\* candidate; so a storage URL in the text wins over an export URL, and a
\* lower step's candidate is never returned when a higher step has one.
C8_LinkPrecedence ==
    pc = "link_done" =>
        LET b == Bodies(inp.message)
            c == StepCandidates(b.html, b.text)
        IN  out = IF \E k \in 1..5 : ~c[k].none
                  THEN c[CHOOSE k \in 1..5 :
                            ~c[k].none /\ \A j \in 1..(k - 1) : c[j].none]
                  ELSE None

(***************************************************************************)
(* Claims about the record store                                           *)
(***************************************************************************)

PagesOf(order_id) ==
    {p \in 1..Len(store) : store[p].key = IdNumber(order_id)}

\* C1: while the store calls succeed, the store holds at most one record per
\* order id upserted, and after an upsert of a record with a non-blank id
\* exactly one record holds that id, with the amount of that upsert: a second
\* upsert of the same id updates and never creates a duplicate.
C1_UpsertIdempotent ==
    (pc = "upsert_call" /\ run.clean) =>
        /\ \A p, r \in 1..Len(store) : store[p].key = store[r].key => p = r
        /\ (run.n > 0 /\ run.last.did # "skip") =>
              /\ Cardinality(PagesOf(run.last.entry.order_id)) = 1
              /\ \A p \in PagesOf(run.last.entry.order_id) :
                    store[p].amount = run.last.entry.order_amount

\* C11: the query filters on the property the write puts the order id under,
\* with the same number, whatever id property is configured: an upsert whose
\* store calls succeed, of an id that a page already holds under the
\* configured id property, finds that page and updates it.
C11_QueryFindsWrittenRecord ==
    [][(/\ pc = "upsert_call"
        /\ run'.n = run.n + 1
        /\ run'.clean
        /\ run'.last.did # "skip"
        /\ \E p \in 1..Len(store) :
              /\ store[p].idprop = env.id_property
              /\ store[p].key = IdNumber(run'.last.entry.order_id))
       => run'.last.did = "update"]_vars

(***************************************************************************)
(* Claims about the run                                                    *)
(***************************************************************************)

Processed == {run.processed_emails[j][1] : j \in 1..Len(run.processed_emails)}
MissingSources == {run.missing_reports[j] : j \in 1..Len(run.missing_reports)}

\* C2: when the store query, create or update fails for record i of a batch,
\* the failure does not leave create_or_update_notion_entry: the loop goes on
\* to the next record, and once the batch is over every later record j > i
\* has been attempted.
C2_WriteFailureIsolated ==
    pc \notin {"start"} =>
        \A f \in run.failed :
            /\ \/ (pc = "upsert" /\ run.src = f[1] /\ run.i > f[2])
               \/ SourceNames[f[1]] \in Processed
            /\ SourceNames[f[1]] \in Processed =>
                  \A j \in (f[2] + 1)..run.batch[f[1]] :
                      <<f[1], j>> \in run.attempted

C2_Witness ==
    /\ pc = "exit"
    /\ <<1, 1>> \in run.failed
    /\ <<1, 2>> \in run.attempted
    /\ <<1, 2>> \notin run.failed
    /\ Len(store) = 1

\* C3: once setup has succeeded and the run is over, each source is in
\* exactly one of the processed list and the missing-report list, and source
\* 2 has been searched for, whatever retrieval step failed for source 1.
C3_RetrievalFailureConfined ==
    (pc = "exit" /\ run.setup = "ok") =>
        /\ 2 \in run.searched
        /\ \A s \in 1..2 :
              (SourceNames[s] \in Processed) # (SourceNames[s] \in MissingSources)

\* C4: the process exits with failure status exactly when setup fails; once
\* setup has succeeded the run ends with success status whatever retrieval,
\* parse, write or cleanup step failed.
C4_ExitContract ==
    pc = "exit" => (out.status = 1 <=> run.setup = "failed")

\* C5: when process() ends, send_alert_email has been invoked if and only if
\* the missing-report list is non-empty, at most once and with exactly that
\* list; a message is sent only with an alert address configured, and it
\* names that list; and a run that invoked the alert ends with success status
\* whether or not the send failed.
C5_AlertIffMissing ==
    pc \notin {"start"} =>
        /\ Len(run.alerts) <= 1
        /\ Len(run.sent) <= Len(run.alerts)
        /\ \A j \in 1..Len(run.alerts) : run.alerts[j] = run.missing_reports
        /\ \A j \in 1..Len(run.sent) :
              /\ env.alert_email # ""
              /\ run.sent[j] = [to |-> env.alert_email,
                                missing |-> run.missing_reports]
        /\ (pc = "summary" \/ (pc = "exit" /\ out.status = 0)) =>
              (run.alerts # <<>> <=> run.missing_reports # <<>>)
        /\ (pc = "exit" /\ run.alerts # <<>>) => out.status = 0

C5_Witness ==
    /\ pc = "exit"
    /\ out.status = 0
    /\ run.missing_reports = <<"Source2">>
    /\ run.alerts = <<run.missing_reports>>
    /\ env.alert_email # ""
    /\ run.sent = <<>>

\* The sources whose work is over: in the processed or the missing list.
Finished == Processed \cup MissingSources

\* C12: archive or trash is attempted for a message only when its source is
\* in the processed list, every record of its batch having gone through the
\* reconcile loop, and only once both sources are finished; no archive or
\* trash is attempted for the message of a source recorded as missing; and
\* trash is attempted only after the archive of the same message was refused
\* with status 403.
C12_ArchiveGatedAndOrdered ==
    pc \notin {"start"} =>
        \A m \in run.mail_ops :
            /\ SourceNames[m[1]] \in Processed
            /\ SourceNames[m[1]] \notin MissingSources
            /\ \A j \in 1..run.batch[m[1]] : <<m[1], j>> \in run.attempted
            /\ \A s \in 1..2 : SourceNames[s] \in Finished
            /\ pc \in {"cleanup", "trash", "summary", "exit"}
            /\ m[2] = "trash" =>
                  <<m[1], "archive", "HttpError403">> \in run.mail_ops

C12_Witness ==
    /\ pc = "exit"
    /\ out.status = 0
    /\ run.missing_reports = <<"Source2">>
    /\ run.batch[1] = 2
    /\ <<1, "archive", "HttpError403">> \in run.mail_ops
    /\ <<1, "trash", "ok">> \in run.mail_ops
    /\ \A m \in run.mail_ops : m[1] = 1

\* C13: when process() ends, the 'Entries synced' number of the summary is
\* the number of records created or updated in the store during the run; a
\* record whose upsert was skipped or whose store call failed is not counted.
C13_SyncedCountAccurate ==
    (pc = "exit" /\ out.status = 0) => out.summary.val.synced = run.written

=============================================================================
